---- MODULE Spec2Model ----
(***************************************************************************)
(* Model of the pinocchio-pubkey crate (sdk/pubkey/src/lib.rs): the        *)
(* compile-time base58 decoder adapter from_str, the pubkey! and           *)
(* declare_id! macros, and the ID / id() / check_id() items that           *)
(* declare_id! expands to.                                                 *)
(*                                                                         *)
(* A program is modelled in two stages.  The build stage evaluates the     *)
(* constant initialiser of ID (const evaluation of from_str); a panic      *)
(* there is a compile error and no program exists.  The run stage is a     *)
(* set of threads that call from_str / pubkey! in ordinary (non-const)     *)
(* expression position, id() and check_id() in any interleaving.           *)
(***************************************************************************)
EXTENDS Integers, Sequences, FiniteSets, TLC

\* Number of runtime threads of the concurrent specification.
NumThreads == 2

\* Pubkey is [u8; 32].
KeyLen == 32

\* Longest base58 text of a 32-byte value.
MaxEncodedLen == 44

\* Number of symbols of the base58 alphabet.
Base == 58

Byte == 0..255

---------------------------------------------------------------------------
(* Base58 text.  A string is a sequence of one-character strings.          *)

Alphabet ==
    <<"1", "2", "3", "4", "5", "6", "7", "8", "9", "A", "B", "C", "D", "E",
      "F", "G", "H", "J", "K", "L", "M", "N", "P", "Q", "R", "S", "T", "U",
      "V", "W", "X", "Y", "Z", "a", "b", "c", "d", "e", "f", "g", "h", "i",
      "j", "k", "m", "n", "o", "p", "q", "r", "s", "t", "u", "v", "w", "x",
      "y", "z">>

IsBase58Char(c) == \E i \in 1..Base : Alphabet[i] = c

DigitOf(c) == (CHOOSE i \in 1..Base : Alphabet[i] = c) - 1

Ones(n) == [i \in 1..n |-> "1"]

Zeros(n) == [i \in 1..n |-> 0]

RECURSIVE LeadingCount(_, _, _)
LeadingCount(seq, x, i) ==
    IF i > Len(seq) \/ seq[i] # x THEN i - 1 ELSE LeadingCount(seq, x, i + 1)

LeadingOnes(encoded) == LeadingCount(encoded, "1", 1)

LeadingZeros(bytes) == LeadingCount(bytes, 0, 1)

\* The literals of the model: the two of the crate's tests, the largest
\* 32-byte value, and literals on each side of every rejection boundary.
L_SYSTEM == Ones(32)

L_OTHER ==
    <<"9", "W", "z", "D", "X", "w", "B", "b", "m", "k", "g", "8", "Z", "T",
      "b", "N", "M", "q", "U", "x", "v", "Q", "R", "A", "y", "r", "Z", "z",
      "D", "s", "G", "Y", "d", "L", "V", "L", "9", "z", "Y", "t", "A", "W",
      "W", "M">>

L_MAX ==
    <<"J", "E", "K", "N", "V", "n", "k", "b", "o", "3", "j", "m", "a", "5",
      "n", "R", "E", "B", "B", "J", "C", "D", "o", "X", "F", "V", "e", "K",
      "k", "D", "5", "6", "V", "3", "x", "K", "r", "v", "R", "m", "W", "x",
      "F", "G">>

L_ONE == Ones(31) \o <<"2">>

L_255 == Ones(31) \o <<"5", "Q">>

L_OVERFLOW ==
    <<"J", "E", "K", "N", "V", "n", "k", "b", "o", "3", "j", "m", "a", "5",
      "n", "R", "E", "B", "B", "J", "C", "D", "o", "X", "F", "V", "e", "K",
      "k", "D", "5", "6", "V", "3", "x", "K", "r", "v", "R", "m", "W", "x",
      "F", "H">>

L_SHORT == Ones(31)

L_LONG == Ones(33)

L_256 == Ones(31) \o <<"5", "R">>

L_ZERO_CHAR == Ones(31) \o <<"0">>

L_LOWER_L == <<"l">> \o Ones(31)

L_EMPTY == << >>

L_45 == Ones(1) \o L_OTHER

Literals ==
    {L_SYSTEM, L_OTHER, L_MAX, L_ONE, L_255,
     L_OVERFLOW, L_SHORT, L_LONG, L_256, L_ZERO_CHAR, L_LOWER_L, L_EMPTY, L_45}

---------------------------------------------------------------------------
(* five8_const::decode_32_const: base58 text to exactly 32 bytes, or a     *)
(* panic.  The accumulator is a fixed array of KeyLen bytes, big-endian.   *)

\* A panic of the decoder (no value is returned).
DecodeFailure == <<"DecodeFailure">>

\* bytes * 58 + carry over the byte positions i, i-1, .., 1;
\* the result is the pair <<new bytes, carry out of the first byte>>.
RECURSIVE MulAdd(_, _, _)
MulAdd(bytes, i, carry) ==
    IF i = 0
    THEN <<bytes, carry>>
    ELSE LET v == bytes[i] * Base + carry
         IN  MulAdd([bytes EXCEPT ![i] = v % 256], i - 1, v \div 256)

\* The accumulator after the characters i.., or DecodeFailure when the
\* value no longer fits KeyLen bytes.
RECURSIVE Accumulate(_, _, _)
Accumulate(encoded, i, acc) ==
    IF i > Len(encoded)
    THEN acc
    ELSE LET r == MulAdd(acc, KeyLen, DigitOf(encoded[i]))
         IN  IF r[2] # 0
             THEN DecodeFailure
             ELSE Accumulate(encoded, i + 1, r[1])

Decode32(encoded) ==
    IF Len(encoded) > MaxEncodedLen
    THEN DecodeFailure
    ELSE IF \E i \in 1..Len(encoded) : ~IsBase58Char(encoded[i])
    THEN DecodeFailure
    ELSE LET out == Accumulate(encoded, 1, Zeros(KeyLen))
         IN  IF out = DecodeFailure
             THEN DecodeFailure
             ELSE IF LeadingZeros(out) # LeadingOnes(encoded)
             THEN DecodeFailure
             ELSE out

\* Decode32 over the literals of the model, evaluated once.
DecodeTable == [s \in Literals |-> Decode32(s)]

decode_32_const(encoded) == DecodeTable[encoded]

---------------------------------------------------------------------------
(* The crate.                                                              *)

Reversed(k) == [i \in 1..Len(k) |-> k[Len(k) + 1 - i]]

\* Mutation: the panic of the decoder is swallowed and a default key returned.
from_str_lenient(value) ==
    IF decode_32_const(value) = DecodeFailure
    THEN Zeros(KeyLen)
    ELSE decode_32_const(value)

\* Mutation: the decoded bytes are returned in the opposite order.
from_str_reversed(value) ==
    IF decode_32_const(value) = DecodeFailure
    THEN DecodeFailure
    ELSE Reversed(decode_32_const(value))

\* pub const fn from_str(value: &str) -> Pubkey { decode_32_const(value) }
from_str(value) == decode_32_const(value)

\* Mutation: the macro expands to something other than from_str of its literal.
pubkey_reversed(id) ==
    IF from_str(id) = DecodeFailure
    THEN DecodeFailure
    ELSE Reversed(from_str(id))

\* macro_rules! pubkey { ( $id:literal ) => { $crate::from_str($id) } }
pubkey(id) == from_str(id)

\* Mutation: the comparison stops one byte early.
PubkeyEq_prefix(a, b) == \A i \in 1..(KeyLen - 1) : a[i] = b[i]

\* Pubkey's == : [u8; 32] equality, element by element over all KeyLen bytes.
PubkeyEq(a, b) == \A i \in 1..KeyLen : a[i] = b[i]

\* Mutation: the comparison is inverted.
check_id_negated(id, ID_) == ~PubkeyEq(id, ID_)

\* Mutation: the comparison is dropped.
check_id_always(id, ID_) == TRUE

\* pub fn check_id(id: &Pubkey) -> bool { id == &ID }
check_id(id, ID_) == PubkeyEq(id, ID_)

\* Mutation: id() returns a default key instead of ID.
id_default(ID_) == Zeros(KeyLen)

\* pub const fn id() -> Pubkey { ID }
id(ID_) == ID_

---------------------------------------------------------------------------
(* A program that contains declare_id!(literal), and its threads.          *)

VARIABLES
    phase,     \* "source": not built; "rejected": compile error; "built"
    literal,   \* the argument of declare_id!
    ID,        \* pub const ID, once built
    pc,        \* per thread: "idle", "check_id", "checked", "id", "panicked"
    key,       \* per thread: a local Pubkey binding, NoKey when unbound
    src,       \* per thread: the expression key was last bound from
    res        \* per thread: the value returned by check_id(&key)

vars == <<phase, literal, ID, pc, key, src, res>>

Threads == 1..NumThreads

\* No Pubkey value.
NoKey == << >>

Unbound == <<"none">>

Init ==
    /\ phase = "source"
    /\ literal = << >>
    /\ ID = NoKey
    /\ pc = [t \in Threads |-> "idle"]
    /\ key = [t \in Threads |-> NoKey]
    /\ src = [t \in Threads |-> Unbound]
    /\ res = [t \in Threads |-> FALSE]

\* The thread is between two calls.
Ready(t) == phase = "built" /\ pc[t] \in {"idle", "checked"}

\* Compilation of `pub const ID: Pubkey = from_str(literal)`: the initialiser
\* is const-evaluated, and a panic in it is a compile error.
Build(s) ==
    /\ phase = "source"
    /\ literal' = s
    /\ LET r == from_str(s)
       IN  IF r = DecodeFailure
           THEN phase' = "rejected" /\ ID' = NoKey
           ELSE phase' = "built" /\ ID' = r
    /\ UNCHANGED <<pc, key, src, res>>

\* `let key = from_str(s);` or `let key = pubkey!(s);` in a function body:
\* an ordinary call, evaluated when the thread gets there.
LetKey(t, via, s) ==
    /\ Ready(t)
    /\ src' = [src EXCEPT ![t] = <<via, s>>]
    /\ res' = [res EXCEPT ![t] = FALSE]
    /\ LET r == IF via = "pubkey" THEN pubkey(s) ELSE from_str(s)
       IN  IF r = DecodeFailure
           THEN /\ pc' = [pc EXCEPT ![t] = "panicked"]
                /\ key' = [key EXCEPT ![t] = NoKey]
           ELSE /\ pc' = [pc EXCEPT ![t] = "idle"]
                /\ key' = [key EXCEPT ![t] = r]
    /\ UNCHANGED <<phase, literal, ID>>

\* check_id(&key) is entered.
CheckIdCall(t) ==
    /\ Ready(t)
    /\ key[t] # NoKey
    /\ pc' = [pc EXCEPT ![t] = "check_id"]
    /\ res' = [res EXCEPT ![t] = FALSE]
    /\ UNCHANGED <<phase, literal, ID, key, src>>

\* check_id(&key) reads ID and *id, and returns.
CheckIdReturn(t) ==
    /\ pc[t] = "check_id"
    /\ res' = [res EXCEPT ![t] = check_id(key[t], ID)]
    /\ pc' = [pc EXCEPT ![t] = "checked"]
    /\ UNCHANGED <<phase, literal, ID, key, src>>

\* `let mut key = id();` is entered.
IdCall(t) ==
    /\ Ready(t)
    /\ pc' = [pc EXCEPT ![t] = "id"]
    /\ res' = [res EXCEPT ![t] = FALSE]
    /\ UNCHANGED <<phase, literal, ID, key, src>>

\* Mutation: id() moves the value out of ID and leaves a default behind.
IdReturn_take(t) ==
    /\ pc[t] = "id"
    /\ key' = [key EXCEPT ![t] = ID]
    /\ ID' = Zeros(KeyLen)
    /\ src' = [src EXCEPT ![t] = <<"id">>]
    /\ pc' = [pc EXCEPT ![t] = "idle"]
    /\ UNCHANGED <<phase, literal, res>>

\* id() returns ID by value; the caller binds the copy.
IdReturn(t) ==
    /\ pc[t] = "id"
    /\ key' = [key EXCEPT ![t] = id(ID)]
    /\ src' = [src EXCEPT ![t] = <<"id">>]
    /\ pc' = [pc EXCEPT ![t] = "idle"]
    /\ UNCHANGED <<phase, literal, ID, res>>

\* Mutation: id() hands out ID itself, so the caller's write lands in ID.
Mutate_shared(t, i) ==
    /\ Ready(t)
    /\ src[t] = <<"id">>
    /\ key' = [key EXCEPT ![t][i] = (@ + 1) % 256]
    /\ ID' = [ID EXCEPT ![i] = (@ + 1) % 256]
    /\ src' = [src EXCEPT ![t] = <<"mutated">>]
    /\ pc' = [pc EXCEPT ![t] = "idle"]
    /\ res' = [res EXCEPT ![t] = FALSE]
    /\ UNCHANGED <<phase, literal>>

\* The caller overwrites byte i of the copy that id() returned.
Mutate(t, i) ==
    /\ Ready(t)
    /\ src[t] = <<"id">>
    /\ key' = [key EXCEPT ![t][i] = (@ + 1) % 256]
    /\ src' = [src EXCEPT ![t] = <<"mutated">>]
    /\ pc' = [pc EXCEPT ![t] = "idle"]
    /\ res' = [res EXCEPT ![t] = FALSE]
    /\ UNCHANGED <<phase, literal, ID>>

---------------------------------------------------------------------------
(* Spec: NumThreads threads in any interleaving, over a small input set.   *)

ConcLiterals == {L_SYSTEM, L_OTHER, L_SHORT}

ConcPositions == {1, KeyLen}

Next ==
    \/ \E s \in ConcLiterals : Build(s)
    \/ \E t \in Threads, s \in ConcLiterals : LetKey(t, "from_str", s)
    \/ \E t \in Threads : CheckIdCall(t)
    \/ \E t \in Threads : CheckIdReturn(t)
    \/ \E t \in Threads : IdCall(t)
    \/ \E t \in Threads : IdReturn(t)
    \/ \E t \in Threads, i \in ConcPositions : Mutate(t, i)

Spec == Init /\ [][Next]_vars

(* SpecSeq: one thread, every literal of the model through both from_str   *)
(* and pubkey!, and every byte position.                                    *)

Main == 1

NextSeq ==
    \/ \E s \in Literals : Build(s)
    \/ \E via \in {"from_str", "pubkey"}, s \in Literals : LetKey(Main, via, s)
    \/ CheckIdCall(Main)
    \/ CheckIdReturn(Main)
    \/ IdCall(Main)
    \/ IdReturn(Main)
    \/ \E i \in 1..KeyLen : Mutate(Main, i)

SpecSeq == Init /\ [][NextSeq]_vars

TypeOK ==
    /\ phase \in {"source", "rejected", "built"}
    /\ phase = "built" => ID \in [1..KeyLen -> Byte]
    /\ phase # "built" => ID = NoKey
    /\ \A t \in Threads :
        /\ pc[t] \in {"idle", "check_id", "checked", "id", "panicked"}
        /\ key[t] = NoKey \/ key[t] \in [1..KeyLen -> Byte]
        /\ res[t] \in BOOLEAN

---------------------------------------------------------------------------
(* What a base58 text denotes, independently of the 32-byte decoder: one   *)
(* zero byte per leading "1", then the value of the remaining digits as a  *)
(* big-endian number with no leading zero byte.                            *)

InAlphabet(s) == \A i \in 1..Len(s) : IsBase58Char(s[i])

\* bytes * 58 + d as a byte string that grows when the product needs it.
GrowMulAdd(bytes, d) ==
    LET r == MulAdd(bytes, Len(bytes), d)
    IN  IF r[2] = 0 THEN r[1] ELSE <<r[2]>> \o r[1]

\* (n digits never need more than n bytes, so the second test never holds.)
RECURSIVE ValueBytes(_, _, _)
ValueBytes(s, i, bytes) ==
    IF i > Len(s) \/ Len(bytes) > Len(s)
    THEN bytes
    ELSE ValueBytes(s, i + 1, GrowMulAdd(bytes, DigitOf(s[i])))

Base58Bytes(s) ==
    Zeros(LeadingOnes(s)) \o ValueBytes(s, LeadingOnes(s) + 1, << >>)

\* The literal is base58 text of exactly KeyLen bytes.
Denotes32(s) == InAlphabet(s) /\ Len(Base58Bytes(s)) = KeyLen

DenotesTable == [s \in Literals |-> Denotes32(s)]

BytesTable ==
    [s \in Literals |-> IF InAlphabet(s) THEN Base58Bytes(s) ELSE NoKey]

\* The thread's key was last bound from from_str(s) or pubkey!(s).
Decoded(t) == src[t][1] \in {"from_str", "pubkey"}

\* The key differs from ID in its last byte only.
LastByteOnly(k) ==
    /\ k # NoKey
    /\ k[KeyLen] # ID[KeyLen]
    /\ \A i \in 1..(KeyLen - 1) : k[i] = ID[i]

---------------------------------------------------------------------------
(* Properties.                                                             *)

\* C1: whenever check_id(&c) has returned, its result is TRUE exactly when
\* the candidate c equals ID in all KeyLen bytes.
C1_CheckIdIffByteEqual ==
    \A t \in Threads : pc[t] = "checked" => (res[t] <=> key[t] = ID)

\* check_id has returned FALSE for a candidate that shares ID's first
\* KeyLen - 1 bytes.
C1_Witness ==
    \E t \in Threads : pc[t] = "checked" /\ LastByteOnly(key[t]) /\ ~res[t]

\* C2: check_id(&id()) is TRUE: whenever check_id has returned for a key
\* bound from id() and not modified since, the result is TRUE.
C2_CheckIdOfIdTrue ==
    \A t \in Threads : (pc[t] = "checked" /\ src[t] = <<"id">>) => res[t]

\* check_id(&id()) has returned while another thread has modified its own
\* copy of the identity.
C2_Witness ==
    \E t, u \in Threads :
        /\ pc[t] = "checked" /\ src[t] = <<"id">> /\ res[t]
        /\ src[u] = <<"mutated">>

\* C3: a literal with a character outside the alphabet, or denoting fewer or
\* more than KeyLen bytes, never yields a Pubkey: as the argument of
\* declare_id! the build is rejected and no ID exists; in a from_str or
\* pubkey! call the call panics and binds no key.
C3_BadLiteralRejected ==
    /\ (phase # "source" /\ ~DenotesTable[literal]) =>
            (phase = "rejected" /\ ID = NoKey)
    /\ \A t \in Threads :
        (Decoded(t) /\ ~DenotesTable[src[t][2]]) =>
            (pc[t] = "panicked" /\ key[t] = NoKey)

\* from_str was called on base58 text that denotes KeyLen + 1 bytes, and
\* bound no key.
C3_Witness ==
    \E t \in Threads :
        /\ Decoded(t) /\ src[t][2] = L_256
        /\ Len(BytesTable[L_256]) = KeyLen + 1
        /\ pc[t] = "panicked" /\ key[t] = NoKey

\* C4: a decode failure is never a runtime event: no thread of a built
\* program panics.
C4_NoRuntimePanic ==
    \A t \in Threads : pc[t] # "panicked"

\* C5: the identity declared from 32 "1" characters is the all-zero key, and
\* check_id of the all-zero key is TRUE.
C5_SystemIdIsZero ==
    (phase = "built" /\ literal = Ones(32)) =>
        /\ ID = Zeros(KeyLen)
        /\ \A t \in Threads :
            (pc[t] = "checked" /\ key[t] = Zeros(KeyLen)) => res[t]

\* Under the identity declared from 32 "1" characters, check_id has
\* returned for the all-zero key.
C5_Witness ==
    /\ phase = "built" /\ literal = Ones(32)
    /\ \E t \in Threads : pc[t] = "checked" /\ key[t] = Zeros(KeyLen)

\* C6: under an identity declared from s1, check_id of the decoding of a
\* literal s2 that denotes other bytes than s1 returns FALSE.
C6_DistinctLiteralsFalse ==
    \A t \in Threads :
        ( /\ pc[t] = "checked"
          /\ Decoded(t)
          /\ BytesTable[src[t][2]] # BytesTable[literal] ) => ~res[t]

\* Under the identity declared from 32 "1" characters, check_id has
\* returned for the decoding of "9WzDXwBbmkg8ZTbNMqUxvQRAyrZzDsGYdLVL9zYtAWWM".
C6_Witness ==
    /\ literal = L_SYSTEM
    /\ \E t \in Threads :
        pc[t] = "checked" /\ src[t] = <<"from_str", L_OTHER>> /\ ~res[t]

\* C7: a key bound from from_str(s) or from pubkey!(s), at any point of the
\* run, equals the ID that declare_id!(s) produced from the same literal.
C7_SameLiteralSameKey ==
    \A t \in Threads :
        (Decoded(t) /\ src[t][2] = literal /\ phase = "built") =>
            key[t] = ID

\* pubkey!(s) was evaluated at run time for the literal of declare_id!, for
\* a key that is not all-zero.
C7_Witness ==
    \E t \in Threads :
        /\ phase = "built" /\ src[t] = <<"pubkey", literal>>
        /\ key[t] = ID /\ ID # Zeros(KeyLen)

\* C8: for a literal that denotes exactly KeyLen bytes, from_str returns a
\* key of KeyLen bytes, equal to what decode_32_const returns for it.
C8_FromStrIsDecoder ==
    \A t \in Threads :
        (src[t][1] = "from_str" /\ DenotesTable[src[t][2]]) =>
            /\ pc[t] # "panicked"
            /\ Len(key[t]) = KeyLen
            /\ key[t] = DecodeTable[src[t][2]]

\* from_str has returned the largest 32-byte value.
C8_Witness ==
    \E t \in Threads :
        /\ src[t] = <<"from_str", L_MAX>>
        /\ key[t] = [i \in 1..KeyLen |-> 255]

\* C9: once built, ID never changes; no step of a thread inside check_id
\* changes that thread's candidate; and a key just returned by id() equals
\* ID, whatever was done to earlier copies.
C9_IdImmutable ==
    [][ /\ phase = "built" => ID' = ID
        /\ \A t \in Threads : pc[t] = "check_id" => key'[t] = key[t]
        /\ \A t \in Threads :
            (pc[t] = "id" /\ pc'[t] # "id") => key'[t] = ID /\ ID' = ID
      ]_vars

\* One thread has modified its copy of the identity, and id() has since
\* returned to another thread the unmodified ID.
C9_Witness ==
    \E t, u \in Threads :
        /\ src[t] = <<"mutated">> /\ key[t] # ID
        /\ src[u] = <<"id">> /\ key[u] = ID
        /\ pc[u] = "checked" /\ res[u]

\* C10: under any interleaving, check_id(&c) returns what it returns when
\* run alone, c = from_str(literal), and id() returns from_str(literal).
C10_ConcurrentCallsAsAlone ==
    \A t \in Threads :
        /\ pc[t] = "checked" => (res[t] <=> key[t] = DecodeTable[literal])
        /\ src[t] = <<"id">> => key[t] = DecodeTable[literal]

\* A check_id call has returned FALSE to one thread while another thread
\* is inside check_id or id().
C10_Witness ==
    \E t, u \in Threads :
        /\ t # u
        /\ pc[t] = "checked" /\ ~res[t]
        /\ pc[u] \in {"check_id", "id"}

====
